---- MODULE Spec2Model ----
(***************************************************************************)
(* Model of scripts/occupy_gpu.py: a command-line utility that allocates   *)
(* one buffer per requested GPU, holds the buffers in a sleep/touch loop   *)
(* and drops them on timeout or on SIGINT/SIGTERM.                         *)
(*                                                                         *)
(* One state of the model is one bytecode boundary of the main thread.     *)
(* CPython runs a Python-level signal handler in the main thread between   *)
(* two bytecodes, so a handler frame is pushed on top of whatever main (or *)
(* an earlier handler frame) was doing, and runs to its sys.exit(0).       *)
(*                                                                         *)
(* Buffers are numbered 1, 2, ... in the order allocate_memory returned    *)
(* them.  A buffer is freed when its last reference goes away: the list    *)
(* `tensors`, main's local `tensor` (line 78) and main's loop variable `t` *)
(* (line 109) are the references the program keeps.  list.clear() drops    *)
(* the items from the last to the first.                                   *)
(***************************************************************************)
EXTENDS Integers, Sequences, FiniteSets, TLC

\* ---------------------------------------------------------------- bounds
MaxReq == 3        \* longest --gpus list explored
MaxDevices == 1    \* largest torch.cuda.device_count() explored
MaxSignals == 2    \* signals delivered in one run
MaxTime == 22      \* the clock stops the exploration here
MaxLag == 1        \* by how much one sleep + touch pass may overrun

\* ------------------------------------------------------ program constants
SleepSeconds == 10 \* time.sleep(10)

Durations == {0, 5, 11}          \* values of --duration explored
Signals == {"SIGINT", "SIGTERM"}

\* One comma-separated item of --gpus: an integer literal, or text that
\* int() rejects.
Junk == [isint |-> FALSE, val |-> 0]
IntTok(v) == [isint |-> TRUE, val |-> v]
Tokens == {Junk} \cup {IntTok(v) : v \in (-1)..MaxDevices}

VARIABLES
  gpus_arg,      \* args.gpus, split at the commas
  duration,      \* args.duration
  num_gpus,      \* torch.cuda.device_count()
  pc,            \* where main is
  gpu_ids,       \* the parsed list
  tensors,       \* the list of held buffers
  tensor,        \* main's local `tensor` (0: None or unbound)
  t,             \* main's loop variable `t` (0: unbound)
  ti,            \* index of the list iterator of `for t in tensors`
  live,          \* buffers allocated and not freed
  cached,        \* freed buffers still in the caching allocator
  freeLog,       \* buffers in the order the program freed them
  reclaimed,     \* buffers freed only by the teardown of the process
  handlers,      \* signals whose handler is signal_handler
  hstack,        \* the running signal_handler frames, innermost last
  nsig,          \* signals delivered so far
  now,           \* time.time()
  start_time,    \* main's local start_time
  last_check,    \* elapsed time seen by the latest check that found no timeout
  acquire_calls, \* calls of allocate_memory
  n_ok,          \* calls of allocate_memory that returned a buffer
  device,        \* device[b]: the gpu_id buffer b was allocated on
  relLog,        \* the release operations executed, in order
  exit_status,   \* the process's exit status (-1: still running)
  exit_cause     \* why it ended

inputs == <<gpus_arg, duration, num_gpus>>
heap == <<live, cached, freeLog, reclaimed>>
locals == <<gpu_ids, tensor, t, ti>>
clock == <<now, start_time, last_check>>
sigs == <<handlers, hstack, nsig>>
exits == <<exit_status, exit_cause>>
calls == <<acquire_calls, n_ok, device>>
vars == <<inputs, pc, tensors, heap, locals, clock, sigs, exits, calls, relLog>>

\* ---------------------------------------------------------------- helpers
Range(s) == {s[i] : i \in DOMAIN s}
Reverse(s) == [i \in 1..Len(s) |-> s[Len(s) + 1 - i]]
SeqsUpTo(S, n) == UNION {[1..k -> S] : k \in 1..n}

\* [int(x.strip()) for x in args.gpus.split(',')]: the integers, or ValueError
ParseFails(arg) == \E i \in DOMAIN arg : ~arg[i].isint
ParsedIds(arg) == [i \in DOMAIN arg |-> arg[i].val]

\* An off-by-one range test: id == n passes.
OutOfRangeOffByOne(id, n) == id < 0 \/ id > n

\* gpu_id < 0 or gpu_id >= num_gpus
OutOfRange(id, n) == id < 0 \/ id >= n
AnyOutOfRange(ids, n) == \E i \in DOMAIN ids : OutOfRange(ids[i], n)

\* A clear that drops the items from the first to the last.
DroppedForward(list, keep) == SelectSeq(list, LAMBDA b : b \notin keep)

\* The buffers tensors.clear() frees, in the order it frees them: the items
\* from the last to the first, those still referenced by a local left alive.
Dropped(list, keep) == SelectSeq(Reverse(list), LAMBDA b : b \notin keep)

Running == pc # "exited"
InMain == Running /\ hstack = <<>>

Init ==
  /\ gpus_arg \in SeqsUpTo(Tokens, MaxReq)
  /\ duration \in Durations
  /\ num_gpus \in 1..MaxDevices
  /\ pc = "parse"
  /\ gpu_ids = <<>>
  /\ tensors = <<>>
  /\ tensor = 0
  /\ t = 0
  /\ ti = 0
  /\ live = {}
  /\ cached = {}
  /\ freeLog = <<>>
  /\ reclaimed = {}
  /\ handlers = {}
  /\ hstack = <<>>
  /\ nsig = 0
  /\ now = 0
  /\ start_time = 0
  /\ last_check = 0
  /\ acquire_calls = 0
  /\ n_ok = 0
  /\ device = <<>>
  /\ relLog = <<>>
  /\ exit_status = -1
  /\ exit_cause = "none"

\* The interpreter ends the process: sys.exit, an uncaught exception or
\* main returning.  The frames are torn down and what is still alive is
\* freed then.
PyExit(cause, status) ==
  /\ pc' = "exited"
  /\ exit_cause' = cause
  /\ exit_status' = status
  /\ reclaimed' = reclaimed \cup live
  /\ live' = {}

\* A release that frees the buffers and leaves them in the list.
ListClearKeepsList(where) ==
  LET d == Dropped(tensors, {tensor, t}) IN
  /\ tensors' = tensors
  /\ freeLog' = freeLog \o d
  /\ live' = live \ Range(d)
  /\ cached' = cached \cup Range(d)
  /\ relLog' = Append(relLog, where)

\* tensors.clear()
ListClear(where) ==
  LET d == Dropped(tensors, {tensor, t}) IN
  /\ tensors' = <<>>
  /\ freeLog' = freeLog \o d
  /\ live' = live \ Range(d)
  /\ cached' = cached \cup Range(d)
  /\ relLog' = Append(relLog, where)

\* torch.cuda.empty_cache()
EmptyCache(where) ==
  /\ cached' = {}
  /\ relLog' = Append(relLog, where)

\* ------------------------------------------------------------------ main
\* lines 58-63
Parse ==
  /\ InMain /\ pc = "parse"
  /\ IF ParseFails(gpus_arg)
       THEN /\ PyExit("parse", 1)
            /\ UNCHANGED gpu_ids
       ELSE /\ gpu_ids' = ParsedIds(gpus_arg)
            /\ pc' = "validate"
            /\ UNCHANGED <<exits, live, reclaimed>>
  /\ UNCHANGED <<inputs, tensors, cached, freeLog, tensor, t, ti, clock, sigs,
                 calls, relLog>>

\* lines 65-70
Validate ==
  /\ InMain /\ pc = "validate"
  /\ IF AnyOutOfRange(gpu_ids, num_gpus)
       THEN PyExit("range", 1)
       ELSE /\ pc' = "alloc"
            /\ UNCHANGED <<exits, live, reclaimed>>
  /\ UNCHANGED <<inputs, tensors, cached, freeLog, locals, clock, sigs, calls,
                 relLog>>

\* An allocation loop left after its first buffer.
AfterAllocEarly(n) == IF n >= 1 THEN "install_int" ELSE "alloc"

\* A timeout test that takes duration 0 for a duration.
TimedOutZero(d, elapsed) == d >= 0 /\ elapsed >= d

\* What follows the allocation loop: lines 86-100
AfterAlloc(n) == IF n = Len(gpu_ids) THEN "install_int" ELSE "alloc"

\* lines 76-78, 83-84: allocate_memory returned a buffer
AllocOk ==
  /\ InMain /\ pc = "alloc"
  /\ acquire_calls' = acquire_calls + 1
  /\ n_ok' = n_ok + 1
  /\ tensor' = n_ok + 1
  /\ live' = live \cup {n_ok + 1}
  /\ tensors' = Append(tensors, n_ok + 1)
  /\ device' = Append(device, gpu_ids[Len(tensors) + 1])
  /\ pc' = AfterAlloc(Len(tensors) + 1)
  /\ UNCHANGED <<inputs, cached, freeLog, reclaimed, gpu_ids, t, ti, clock,
                 sigs, exits, relLog>>

\* lines 76-79, 47-52: allocate_memory caught RuntimeError and returned None
AllocFail ==
  /\ InMain /\ pc = "alloc"
  /\ acquire_calls' = acquire_calls + 1
  /\ tensor' = 0
  /\ pc' = "rollback"
  /\ UNCHANGED <<inputs, tensors, heap, gpu_ids, t, ti, clock, sigs, exits,
                 n_ok, device, relLog>>

\* An acquisition failure that exits without dropping what was acquired.
RollbackNoClear ==
  /\ InMain /\ pc = "rollback"
  /\ pc' = "rollback_exit"
  /\ UNCHANGED <<inputs, tensors, heap, locals, clock, sigs, exits, calls,
                 relLog>>

\* line 81
Rollback ==
  /\ InMain /\ pc = "rollback"
  /\ ListClear("rollback.clear")
  /\ pc' = "rollback_exit"
  /\ UNCHANGED <<inputs, reclaimed, locals, clock, sigs, exits, calls>>

\* An acquisition failure that exits with status 0.
RollbackExitZero ==
  /\ InMain /\ pc = "rollback_exit"
  /\ PyExit("alloc", 0)
  /\ UNCHANGED <<inputs, tensors, cached, freeLog, locals, clock, sigs, calls,
                 relLog>>

\* line 82
RollbackExit ==
  /\ InMain /\ pc = "rollback_exit"
  /\ PyExit("alloc", 1)
  /\ UNCHANGED <<inputs, tensors, cached, freeLog, locals, clock, sigs, calls,
                 relLog>>

\* line 100
InstallSigint ==
  /\ InMain /\ pc = "install_int"
  /\ handlers' = handlers \cup {"SIGINT"}
  /\ pc' = "install_term"
  /\ UNCHANGED <<inputs, tensors, heap, locals, clock, hstack, nsig, exits,
                 calls, relLog>>

\* line 101
InstallSigterm ==
  /\ InMain /\ pc = "install_term"
  /\ handlers' = handlers \cup {"SIGTERM"}
  /\ pc' = "start"
  /\ UNCHANGED <<inputs, tensors, heap, locals, clock, hstack, nsig, exits,
                 calls, relLog>>

\* line 104
StartHold ==
  /\ InMain /\ pc = "start"
  /\ start_time' = now
  /\ pc' = "sleep"
  /\ UNCHANGED <<inputs, tensors, heap, locals, now, last_check, sigs, exits,
                 calls, relLog>>

\* line 107: the sleep lasts at least SleepSeconds
Sleep ==
  /\ InMain /\ pc = "sleep"
  /\ \E lag \in 0..MaxLag :
       /\ now + SleepSeconds + lag <= MaxTime
       /\ now' = now + SleepSeconds + lag
  /\ ti' = 0
  /\ pc' = "for"
  /\ UNCHANGED <<inputs, tensors, heap, gpu_ids, tensor, t, start_time,
                 last_check, sigs, exits, calls, relLog>>

\* A touch loop that stops one item short.
ForNextStopsShort ==
  /\ InMain /\ pc = "for"
  /\ IF ti + 1 < Len(tensors)
       THEN /\ t' = tensors[ti + 1]
            /\ ti' = ti + 1
            /\ pc' = "add"
       ELSE /\ pc' = "check"
            /\ UNCHANGED <<t, ti>>
  /\ UNCHANGED <<inputs, tensors, heap, gpu_ids, tensor, clock, sigs, exits,
                 calls, relLog>>

\* line 109: the list iterator yields the next item, or the loop ends
ForNext ==
  /\ InMain /\ pc = "for"
  /\ IF ti < Len(tensors)
       THEN /\ t' = tensors[ti + 1]
            /\ ti' = ti + 1
            /\ pc' = "add"
       ELSE /\ pc' = "check"
            /\ UNCHANGED <<t, ti>>
  /\ UNCHANGED <<inputs, tensors, heap, gpu_ids, tensor, clock, sigs, exits,
                 calls, relLog>>

\* line 110
TouchAdd ==
  /\ InMain /\ pc = "add"
  /\ pc' = "sub"
  /\ UNCHANGED <<inputs, tensors, heap, locals, clock, sigs, exits, calls,
                 relLog>>

\* line 111
TouchSub ==
  /\ InMain /\ pc = "sub"
  /\ pc' = "for"
  /\ UNCHANGED <<inputs, tensors, heap, locals, clock, sigs, exits, calls,
                 relLog>>

\* lines 110-111 raising RuntimeError: `except KeyboardInterrupt` does not
\* catch it, lines 119-122 are skipped, the interpreter prints the traceback
TouchError ==
  /\ InMain /\ pc \in {"add", "sub"}
  /\ PyExit("touch_error", 1)
  /\ UNCHANGED <<inputs, tensors, cached, freeLog, locals, clock, sigs, calls,
                 relLog>>

\* A timeout test with > in place of >=.
TimedOutStrict(d, elapsed) == d > 0 /\ elapsed > d

\* args.duration > 0 and (time.time() - start_time) >= args.duration
TimedOut(d, elapsed) == d > 0 /\ elapsed >= d

\* lines 113-115
Check ==
  /\ InMain /\ pc = "check"
  /\ IF TimedOut(duration, now - start_time)
       THEN /\ pc' = "cleanup_clear"
            /\ UNCHANGED last_check
       ELSE /\ pc' = "sleep"
            /\ last_check' = now - start_time
  /\ UNCHANGED <<inputs, tensors, heap, locals, now, start_time, sigs, exits,
                 calls, relLog>>

\* line 120
CleanupClear ==
  /\ InMain /\ pc = "cleanup_clear"
  /\ ListClear("cleanup.clear")
  /\ pc' = "cleanup_cache"
  /\ UNCHANGED <<inputs, reclaimed, locals, clock, sigs, exits, calls>>

\* line 121
CleanupCache ==
  /\ InMain /\ pc = "cleanup_cache"
  /\ EmptyCache("cleanup.empty_cache")
  /\ pc' = "return"
  /\ UNCHANGED <<inputs, tensors, live, freeLog, reclaimed, locals, clock,
                 sigs, exits, calls>>

\* line 122 and the return of main
MainReturn ==
  /\ InMain /\ pc = "return"
  /\ PyExit("timeout", 0)
  /\ UNCHANGED <<inputs, tensors, cached, freeLog, locals, clock, sigs, calls,
                 relLog>>

\* --------------------------------------------------------------- signals
\* Lines 116-117 (`except KeyboardInterrupt: pass`) have no action: line 100
\* replaces SIGINT's default handler before the try is entered, so
\* KeyboardInterrupt is never raised inside it.

\* What the process does with a signal whose disposition is the default:
\* SIGTERM ends it at once, SIGINT raises KeyboardInterrupt in main, which
\* nothing catches outside the try of line 105.
DefaultAction(sig) ==
  IF sig = "SIGTERM"
    THEN /\ pc' = "exited"
         /\ exit_cause' = "killed"
         /\ exit_status' = 143
         /\ UNCHANGED <<live, reclaimed>>
    ELSE \E st \in {1, 130} : PyExit("kbdint", st)

\* A signal arrives.
Deliver(sig) ==
  /\ Running
  /\ nsig < MaxSignals
  /\ nsig' = nsig + 1
  /\ IF sig \in handlers
       THEN /\ hstack' = Append(hstack, "h_clear")
            /\ UNCHANGED <<pc, exits, live, reclaimed>>
       ELSE /\ DefaultAction(sig)
            /\ UNCHANGED hstack
  /\ UNCHANGED <<inputs, tensors, cached, freeLog, locals, clock, handlers,
                 calls, relLog>>

Top == hstack[Len(hstack)]
SetTop(p) == [hstack EXCEPT ![Len(hstack)] = p]

\* line 95
HandlerClear ==
  /\ Running /\ hstack # <<>> /\ Top = "h_clear"
  /\ ListClear("handler.clear")
  /\ hstack' = SetTop("h_cache")
  /\ UNCHANGED <<inputs, pc, reclaimed, locals, clock, handlers, nsig, exits,
                 calls>>

\* line 96
HandlerCache ==
  /\ Running /\ hstack # <<>> /\ Top = "h_cache"
  /\ EmptyCache("handler.empty_cache")
  /\ hstack' = SetTop("h_exit")
  /\ UNCHANGED <<inputs, pc, tensors, live, freeLog, reclaimed, locals, clock,
                 handlers, nsig, exits, calls>>

\* A handler that returns to what it interrupted instead of exiting.
HandlerReturn ==
  /\ Running /\ hstack # <<>> /\ Top = "h_exit"
  /\ hstack' = SubSeq(hstack, 1, Len(hstack) - 1)
  /\ UNCHANGED <<inputs, pc, tensors, heap, locals, clock, handlers, nsig,
                 exits, calls, relLog>>

\* line 98
HandlerExit ==
  /\ Running /\ hstack # <<>> /\ Top = "h_exit"
  /\ PyExit("signal", 0)
  /\ UNCHANGED <<inputs, tensors, cached, freeLog, locals, clock, sigs, calls,
                 relLog>>

MainStep ==
  \/ Parse \/ Validate \/ AllocOk \/ AllocFail \/ Rollback \/ RollbackExit
  \/ InstallSigint \/ InstallSigterm \/ StartHold
  \/ Sleep \/ ForNext \/ TouchAdd \/ TouchSub \/ TouchError \/ Check
  \/ CleanupClear \/ CleanupCache \/ MainReturn

HandlerStep == HandlerClear \/ HandlerCache \/ HandlerExit

Next ==
  \/ MainStep
  \/ HandlerStep
  \/ \E sig \in Signals : Deliver(sig)

Spec == Init /\ [][Next]_vars


\* The interpreter keeps executing whichever frame is on top.
FairSpec == Spec /\ WF_vars(MainStep) /\ WF_vars(HandlerStep)

\* ------------------------------------------------------ shared vocabulary
Exited == pc = "exited"
Elapsed == now - start_time
\* every requested device got its buffer
Active == gpu_ids # <<>> /\ n_ok = Len(gpu_ids)
Count(log, S) == Cardinality({i \in DOMAIN log : log[i] \in S})
\* a release step (clear, then empty_cache) has run to its end
ReleaseCompleted ==
  \E i \in 1..(Len(relLog) - 1) :
    \/ relLog[i] = "handler.clear" /\ relLog[i + 1] = "handler.empty_cache"
    \/ relLog[i] = "cleanup.clear" /\ relLog[i + 1] = "cleanup.empty_cache"
\* the request passes parsing but not the range validation
BadRequest ==
  /\ \A i \in DOMAIN gpus_arg : gpus_arg[i].isint
  /\ \E i \in DOMAIN gpus_arg :
       gpus_arg[i].val < 0 \/ gpus_arg[i].val > num_gpus - 1

\* ---------------------------------------------------------------- claims

\* C1: when some requested id is outside [0, N), whatever its position in
\* the list, the run never gets past validation, makes no acquire call and
\* no release call, and ends with a failure status (1 from the validation).
C1_ValidationUpfront ==
  BadRequest =>
    /\ pc \in {"parse", "validate", "exited"}
    /\ acquire_calls = 0 /\ n_ok = 0
    /\ relLog = <<>> /\ freeLog = <<>> /\ live = {} /\ reclaimed = {}
    /\ Exited => exit_status # 0
    /\ exit_cause = "range" => exit_status = 1

\* C1 witness: the validation rejected a list whose last id is N itself,
\* behind valid ids.
C1_Witness ==
  /\ Exited /\ exit_cause = "range"
  /\ Len(gpu_ids) >= 2
  /\ gpu_ids[Len(gpu_ids)] = num_gpus
  /\ \A i \in 1..(Len(gpu_ids) - 1) : ~OutOfRange(gpu_ids[i], num_gpus)

\* C2: when the k-th allocation fails, every buffer acquired before it has
\* been freed by the time sys.exit(1) is reached and taken: as many frees as
\* successful acquisitions, nothing held, nothing left to the teardown, and
\* no allocate_memory call after the failing one.
C2_RollbackAllOrNothing ==
  (pc = "rollback_exit" \/ exit_cause = "alloc") =>
    /\ Len(freeLog) = n_ok
    /\ Range(freeLog) = 1..n_ok
    /\ live = {} /\ reclaimed = {} /\ tensors = <<>>
    /\ acquire_calls = n_ok + 1
    /\ Exited => exit_status = 1

\* C2 witness: the third allocation failed after two succeeded, and the
\* process has exited.
C2_Witness ==
  /\ Exited /\ exit_cause = "alloc"
  /\ n_ok = 2 /\ acquire_calls = 3

\* C3: once every requested device holds its buffer, the process does not
\* exit before a release step (clear, then empty_cache) has run to its end.
C3_ReleaseBeforeExit == (Exited /\ Active) => ReleaseCompleted

\* the handler's release has begun
HandlerReleased == "handler.clear" \in Range(relLog)
\* main stands inside a touch pass: between a buffer's add and subtract, or
\* with some buffers of the pass touched and others not yet
HalfApplied == pc = "sub"
MidPass == pc \in {"add", "sub"} \/ (pc = "for" /\ 0 < ti /\ ti < n_ok)

\* C4 as stated: the handler's release never takes place while a touch
\* pass is in flight.
C4_NoReleaseMidPass == ~(HandlerReleased /\ MidPass)

\* C4 as amended: the handler runs at whatever point main was interrupted,
\* a touch pass included, and once its release has begun main never takes
\* another step: the only change of main's position is the exit.
C4_NoStepAfterHandlerRelease ==
  [][HandlerReleased => pc' \in {pc, "exited"}]_vars

\* C4 witness: the handler has completed its release while main stands
\* between the add and the subtract of a buffer.
C4_Witness ==
  /\ HalfApplied /\ hstack = <<"h_exit">>
  /\ relLog = <<"handler.clear", "handler.empty_cache">>

ClearOps == {"handler.clear", "cleanup.clear"}
NoDuplicates(log) == \A i, j \in DOMAIN log : log[i] = log[j] => i = j

\* C5 as stated: the release of an Active set runs once and only once.
C5_ReleaseExactlyOnce ==
  /\ Count(relLog, ClearOps) <= 1
  /\ (Exited /\ exit_status = 0) => Count(relLog, ClearOps) = 1

\* C5 as amended: a run that exits 0 has completed a release step at least
\* once; the handler and the timeout cleanup each carry their own copy of
\* it, and it runs at most once more per signal delivered; no buffer is
\* freed twice, because every run after the first finds the list empty.
C5_ReleaseAtLeastOnceNoDoubleFree ==
  /\ (Exited /\ exit_status = 0) => ReleaseCompleted
  /\ Count(relLog, ClearOps) <= 1 + nsig
  /\ NoDuplicates(freeLog)
  /\ Range(freeLog) \cap (reclaimed \cup live) = {}
  /\ Count(relLog, ClearOps) >= 1 => tensors = <<>>

\* C5 witness: a signal arrived during the timeout cleanup, and the release
\* ran a second time in the handler before the exit.
C5_Witness ==
  /\ Exited /\ exit_status = 0
  /\ relLog = <<"cleanup.clear", "cleanup.empty_cache",
                "handler.clear", "handler.empty_cache">>
  /\ freeLog # <<>>

\* C6 as stated: the timeout stop happens with D <= elapsed < D + interval.
C6_TimeoutWithinOneInterval ==
  pc = "cleanup_clear" =>
    /\ duration <= Elapsed
    /\ Elapsed < duration + SleepSeconds

HoldPcs == {"sleep", "for", "add", "sub", "check"}

\* C6 as amended: the loop leaves Running at the first check that sees
\* elapsed >= D and never before D has elapsed; a check comes only after a
\* sleep of at least 10 s, so the stop is never earlier than 10 s after the
\* hold started and at most one loop iteration (not one interval) after D.
C6_TimeoutAtFirstCheckPastD ==
  /\ pc = "cleanup_clear" =>
       /\ duration > 0
       /\ Elapsed >= duration
       /\ Elapsed >= SleepSeconds
       /\ last_check < duration
       /\ Elapsed - last_check >= SleepSeconds
  /\ (pc \in HoldPcs /\ duration > 0) => last_check < duration

\* C6 witness: D = 11 and the stop comes at 21 s or later, a full interval
\* after D, because the check at 10 s came too early.
C6_Witness ==
  /\ pc = "cleanup_clear" /\ duration = 11
  /\ last_check = SleepSeconds
  /\ Elapsed >= duration + SleepSeconds

SignalInSleep == pc = "sleep" /\ hstack # <<>>

\* C7: a signal delivered during the sleep starts the handler at once; no
\* sleep is completed and no time passes in it before the process has run
\* the release step, freed every buffer and exited with status 0.
C7_SignalDuringSleepReleases ==
  /\ SignalInSleep ~>
       (/\ Exited /\ exit_status = 0 /\ exit_cause = "signal"
        /\ ReleaseCompleted /\ tensors = <<>> /\ live = {})
  /\ [][SignalInSleep => now' = now /\ pc' \in {pc, "exited"}]_vars

\* C7 witness: the handler interrupted the sleep and has run its release.
C7_Witness ==
  /\ pc = "sleep" /\ hstack = <<"h_exit">> /\ tensors = <<>>
  /\ n_ok >= 2 /\ relLog = <<"handler.clear", "handler.empty_cache">>

\* C8: a keep-alive touch that raises ends the run only after a completed
\* release, and with a non-zero status.
C8_TouchErrorReleases ==
  exit_cause = "touch_error" => (ReleaseCompleted /\ exit_status # 0)

FailureCauses == {"parse", "range", "alloc", "touch_error"}
\* validation or acquisition failed, told from the inputs and the counters
FailedBeforeHold ==
  \/ ParseFails(gpus_arg)
  \/ BadRequest
  \/ n_ok < acquire_calls

\* C9: the exit status is 0 exactly when the run ended by the timeout or by
\* a handled signal, after a completed release; it is 1 for an unparsable
\* list, an id out of range, a failed allocation and a keep-alive error; a
\* run whose validation or acquisition failed never exits 0.
C9_ExitStatusByCause ==
  Exited =>
    /\ exit_status = 0 <=>
         (exit_cause \in {"timeout", "signal"} /\ ReleaseCompleted)
    /\ exit_cause \in FailureCauses => exit_status = 1
    /\ FailedBeforeHold => exit_status # 0
    /\ ParseFails(gpus_arg) => exit_cause \in {"parse", "killed", "kbdint"}

\* C9 witness: an allocation failed after one succeeded and the run ended
\* with status 1.
C9_Witness ==
  /\ Exited /\ exit_cause = "alloc" /\ exit_status = 1 /\ n_ok = 1

ReleasePaths == {"alloc", "timeout", "signal"}
\* where a buffer stands in the order of the frees: those of the clear in
\* the order of freeLog, those left to the teardown after all of them
RelPos(b) ==
  IF b \in Range(freeLog)
    THEN CHOOSE i \in DOMAIN freeLog : freeLog[i] = b
    ELSE Len(freeLog) + 1
Decreasing(log) == \A i, j \in DOMAIN log : i < j => log[i] > log[j]

\* C10 as stated: on every release path, of two buffers the one acquired
\* later is released first.
C10_ReverseOrder ==
  (Exited /\ exit_cause \in ReleasePaths) =>
    \A a, b \in 1..n_ok : a < b => RelPos(b) < RelPos(a)

\* C10 as amended: the buffers a release path's clear frees are freed in
\* reverse order of acquisition, and on rollback that is all of them; on
\* the timeout and signal paths the buffers still bound to main's locals
\* (`tensor`: the last acquired; `t`: the one the touch loop is at) survive
\* the clear and are freed at the teardown, so the last acquired buffer is
\* released last, not first.
C10_ClearFreesInReverseButKeepsLocals ==
  (Exited /\ exit_cause \in ReleasePaths) =>
    /\ Decreasing(freeLog)
    /\ Range(freeLog) \cup reclaimed = 1..n_ok
    /\ exit_cause = "alloc" => reclaimed = {}
    /\ exit_cause \in {"timeout", "signal"} =>
         /\ n_ok \in reclaimed
         /\ reclaimed \subseteq {tensor, t}
         /\ \A b \in Range(freeLog) : RelPos(b) < RelPos(n_ok)

\* C10 witness: three buffers, released by the timeout path: 2 then 1 by
\* the clear, 3 at the teardown.
C10_Witness ==
  /\ Exited /\ exit_cause = "timeout"
  /\ freeLog = <<2, 1>> /\ reclaimed = {3}

\* the hold loop is running: main is in it and no handler has interrupted it
LoopRunning == pc \in HoldPcs /\ hstack = <<>>
DevicesHeld == [i \in DOMAIN tensors |-> device[tensors[i]]]

\* C11: while the hold loop runs, the list holds exactly one buffer per
\* requested id, in request order; a handler is installed only once every
\* acquisition has succeeded; and after an acquisition failure the run only
\* rolls back and exits: no handler, no sleep, no touch.
C11_HoldOnlyAfterFullAcquisition ==
  /\ LoopRunning =>
       /\ Len(tensors) = Len(gpu_ids)
       /\ tensors = [i \in 1..Len(gpu_ids) |-> i]
       /\ DevicesHeld = gpu_ids
  /\ handlers # {} => (Active /\ acquire_calls = n_ok)
  /\ n_ok < acquire_calls =>
       /\ pc \in {"rollback", "rollback_exit", "exited"}
       /\ handlers = {} /\ hstack = <<>>
       /\ now = 0 /\ t = 0 /\ ti = 0

\* C11 witness: the loop is touching the second of three held buffers.
C11_Witness ==
  /\ LoopRunning /\ pc = "add" /\ ti = 2
  /\ Len(tensors) = 3 /\ Len(gpu_ids) = 3

CleanupOps == {"cleanup.clear", "cleanup.empty_cache"}

\* C13: with duration 0 the timeout is never taken: main never reaches the
\* cleanup, no run ends by timeout, and whatever was released was released
\* by the handler of a signal or by the rollback of a failed acquisition.
C13_DurationZeroNeverTimesOut ==
  duration = 0 =>
    /\ pc \notin {"cleanup_clear", "cleanup_cache", "return"}
    /\ exit_cause # "timeout"
    /\ Range(relLog) \cap CleanupOps = {}
    /\ relLog # <<>> => (nsig > 0 \/ n_ok < acquire_calls)
    /\ exit_status = 0 => exit_cause = "signal"

\* C13 witness: duration 0, two whole iterations done (past any duration
\* explored), and the loop is back at the sleep, still holding everything.
C13_Witness ==
  /\ duration = 0 /\ LoopRunning /\ pc = "sleep"
  /\ now >= 2 * SleepSeconds /\ last_check >= 2 * SleepSeconds
  /\ tensors # <<>> /\ relLog = <<>>

\* C14: a SIGINT or SIGTERM that ends the run while some but not all of the
\* requested buffers are acquired is followed by a release of every buffer
\* acquired so far through a release path of the program.
C14_SignalDuringAcquisitionReleases ==
  (/\ Exited /\ exit_cause \in {"killed", "kbdint"}
   /\ 0 < n_ok /\ n_ok < Len(gpu_ids)) =>
    (relLog # <<>> /\ Range(freeLog) = 1..n_ok)

ReleaseStarted == relLog # <<>>
TouchStep == (pc = "add" /\ pc' = "sub") \/ (pc = "sub" /\ pc' = "for")
IterStep == pc = "for" /\ pc' = "add"

\* C15: once a release has started (rollback, handler or cleanup), no
\* allocation, no sleep and no touch follows, no buffer comes back to life,
\* and no buffer is freed a second time.
C15_NoUseAfterRelease ==
  [][ReleaseStarted =>
       /\ ~TouchStep /\ ~IterStep
       /\ now' = now
       /\ acquire_calls' = acquire_calls /\ n_ok' = n_ok
       /\ tensors' = <<>>
       /\ live' \subseteq live
       /\ NoDuplicates(freeLog')
       /\ Range(freeLog') \cap (live' \cup reclaimed') = {}]_vars

\* C15 witness: the cleanup released the set, a signal then ran the release
\* a second time on the empty list, and the process is about to exit.
C15_Witness ==
  /\ pc = "cleanup_cache" /\ hstack = <<"h_exit">>
  /\ relLog = <<"cleanup.clear", "handler.clear", "handler.empty_cache">>
  /\ Len(freeLog) >= 2

\* main's successors inside one iteration of the hold loop
IterationOrder ==
  /\ pc = "sleep" => pc' \in {"sleep", "for", "exited"}
  /\ pc = "for" => pc' \in {"for", "add", "check", "exited"}
  /\ pc = "add" => pc' \in {"add", "sub", "exited"}
  /\ pc = "sub" => pc' \in {"sub", "for", "exited"}
  /\ pc = "check" => pc' \in {"check", "sleep", "cleanup_clear", "exited"}
  /\ (pc = "sleep" /\ pc' = "for") => (now' >= now + SleepSeconds /\ ti' = 0)
  /\ (pc = "for" /\ pc' = "add") => (ti' = ti + 1 /\ t' = tensors[ti'])
  /\ (pc = "for" /\ pc' = "check") => ti = Len(tensors)
  /\ (pc \in HoldPcs /\ hstack = <<>> /\ hstack' = <<>> /\ pc' # "exited")
       => (tensors' = tensors /\ live' = live)

\* C16: an iteration is the sleep, then one touch (add, subtract) of every
\* held buffer in list order, then the timeout check; it leaves the list as
\* it was, so that what is held when the timeout fires or a handler starts
\* is exactly what was acquired.
C16_IterationOrderAndFrame ==
  /\ [][IterationOrder]_vars
  /\ []((pc \in HoldPcs \cup {"cleanup_clear"} /\ ~ReleaseStarted) =>
          /\ tensors = [i \in 1..n_ok |-> i]
          /\ live = 1..n_ok
          /\ pc \in {"add", "sub"} => t = tensors[ti]
          /\ pc \in {"check", "cleanup_clear"} => ti = Len(tensors))

\* C16 witness: the second iteration has touched all three buffers and
\* stands at its timeout check with the list unchanged.
C16_Witness ==
  /\ pc = "check" /\ hstack = <<>> /\ ti = 3
  /\ tensors = <<1, 2, 3>> /\ now >= 2 * SleepSeconds

====
